---- MODULE Spec2Model ----
(***************************************************************************)
(* Windowed multipole library (scripts/WMP.py): the WindowedMultipole      *)
(* object, its property setters, from_hdf5 / export_to_hdf5, _evaluate and *)
(* the vectorised __call__.                                                *)
(*                                                                         *)
(* Numbers.  Floating point values are modelled in exact arithmetic:       *)
(* a rational is a pair <<n, d>> in lowest terms with d > 0.  Energies,    *)
(* start_E and k*T are drawn from perfect squares so that math.sqrt is     *)
(* exact.  The transcendental functions the code calls (erf, exp, wofz)    *)
(* and sqrt(pi) are uninterpreted: a real value is a linear form, a        *)
(* function from atoms (1, erf(b), exp(-b^2), Re/Im wofz(z), each times a  *)
(* power of sqrt(pi)) to non-zero rational coefficients.  A value without  *)
(* transcendental part is a linear form over the atom 1 alone.             *)
(***************************************************************************)
EXTENDS Integers, Sequences, FiniteSets, TLC

VARIABLES wmp, disk, ret, assigned

vars == <<wmp, disk, ret, assigned>>

----------------------------------------------------------------------------
(* Module constants, WMP.py lines 8-25.                                    *)

\* WMP_VERSION = 'v1.0', as the sequence of its ASCII codes.
WMP_VERSION == <<118, 49, 46, 48>>

_MP_EA == 0
_MP_RT == 1
_MP_RA == 2
_MP_RF == 3
_FIT_T == 0
_FIT_A == 1
_FIT_F == 2

----------------------------------------------------------------------------
(* Exact rational arithmetic.                                              *)

Abs(n) == IF n < 0 THEN -n ELSE n

RECURSIVE Gcd(_, _)
Gcd(a, b) == IF b = 0 THEN a ELSE Gcd(b, a % b)

Rat(n, d) ==
    LET g == Gcd(Abs(n), Abs(d))
        s == IF d < 0 THEN -1 ELSE 1
    IN  <<(s * n) \div g, (s * d) \div g>>

RInt(n) == <<n, 1>>
RZero == RInt(0)
ROne == RInt(1)
RAdd(a, b) == Rat(a[1] * b[2] + b[1] * a[2], a[2] * b[2])
RNeg(a) == <<-a[1], a[2]>>
RSub(a, b) == RAdd(a, RNeg(b))
RMul(a, b) == Rat(a[1] * b[1], a[2] * b[2])
RDiv(a, b) == Rat(a[1] * b[2], a[2] * b[1])
RLess(a, b) == a[1] * b[2] < b[1] * a[2]

\* int(x) and numpy's float -> int64 cast: truncation toward zero.
RTrunc(a) == IF a[1] >= 0 THEN a[1] \div a[2] ELSE -((-a[1]) \div a[2])

\* numpy.floor.
RFloor(a) == a[1] \div a[2]

\* math.sqrt on a perfect square.
IsSquare(n) == n >= 0 /\ \E k \in 0..n : k * k = n
Sqrt(n) == CHOOSE k \in 0..n : k * k = n

----------------------------------------------------------------------------
(* Complex numbers with rational parts.                                    *)

Cx(re, im) == [re |-> re, im |-> im]
CInt(a, b) == Cx(RInt(a), RInt(b))
CZero == CInt(0, 0)
CSub(a, b) == Cx(RSub(a.re, b.re), RSub(a.im, b.im))
CMul(a, b) == Cx(RSub(RMul(a.re, b.re), RMul(a.im, b.im)),
                 RAdd(RMul(a.re, b.im), RMul(a.im, b.re)))
CConj(a) == Cx(a.re, RNeg(a.im))
CNorm2(a) == RAdd(RMul(a.re, a.re), RMul(a.im, a.im))
CDiv(a, b) ==
    LET n == CMul(a, CConj(b))
        m == CNorm2(b)
    IN  Cx(RDiv(n.re, m), RDiv(n.im, m))
CScale(q, a) == Cx(RMul(q, a.re), RMul(q, a.im))

----------------------------------------------------------------------------
(* Linear forms over atoms.                                                *)

Atom(fn, z, sp) == [fn |-> fn, z |-> z, sp |-> sp]
One == Atom("one", CZero, 0)

LFZero == [a \in {} |-> RZero]
LFRat(q) == IF q = RZero THEN LFZero ELSE [a \in {One} |-> q]
LFAtom(a) == [b \in {a} |-> ROne]
LFCoef(f, a) == IF a \in DOMAIN f THEN f[a] ELSE RZero
LFAdd(f, g) ==
    LET D == DOMAIN f \cup DOMAIN g
        s(a) == RAdd(LFCoef(f, a), LFCoef(g, a))
    IN  [a \in {b \in D : s(b) # RZero} |-> s(a)]
LFScale(q, f) == IF q = RZero THEN LFZero ELSE [a \in DOMAIN f |-> RMul(q, f[a])]
LFNeg(f) == LFScale(RInt(-1), f)

\* f * sqrt(pi)^k: every atom's power of sqrt(pi) is shifted by k.
LFSqrtPi(f, k) ==
    LET sh(a) == Atom(a.fn, a.z, a.sp + k)
    IN  [b \in {sh(a) : a \in DOMAIN f} |-> f[CHOOSE a \in DOMAIN f : sh(a) = b]]

\* A value with no transcendental part, and its rational.
LFExact(f) == DOMAIN f \subseteq {One}
LFValue(f) == LFCoef(f, One)

----------------------------------------------------------------------------
(* Python values.  Every value a setter or a dataset can hold is a record  *)
(* of one shape: py is the Python type ("None", "float", "str", "bytes",   *)
(* "ndarray"), v the value of a scalar, and dtype / shape / flat the       *)
(* element type, the shape and the elements in C order of an ndarray.      *)
(* Booleans are stored as 0 / 1 with dtype "bool".                         *)

PyObj(py, v, dtype, shape, flat) ==
    [py |-> py, v |-> v, dtype |-> dtype, shape |-> shape, flat |-> flat]
None == PyObj("None", 0, "", <<>>, <<>>)
Float(v) == PyObj("float", v, "", <<>>, <<>>)
Str(v) == PyObj("str", v, "", <<>>, <<>>)
NdArray(dtype, shape, flat) == PyObj("ndarray", 0, dtype, shape, flat)

IsNone(x) == x.py = "None"

\* arr[i] of a 1-D array, arr[i, j] of a 2-D array, arr[i, j, k] of a 3-D
\* array (0-based, in range).
At1(arr, i) == arr.flat[i + 1]
At2(arr, i, j) == arr.flat[i * arr.shape[2] + j + 1]
At3(arr, i, j, k) == arr.flat[(i * arr.shape[2] + j) * arr.shape[3] + k + 1]

\* ndarray.astype(np.bool) and ndarray.astype(np.int8) on 0 / 1 data.
AsBool(arr) ==
    NdArray("bool", arr.shape,
            [i \in 1..Len(arr.flat) |-> IF arr.flat[i] # 0 THEN 1 ELSE 0])
AsInt8(arr) ==
    NdArray("int8", arr.shape,
            [i \in 1..Len(arr.flat) |-> IF arr.flat[i] # 0 THEN 1 ELSE 0])

----------------------------------------------------------------------------
(* check_type / check_greater_than and the property setters.  A setter     *)
(* yields the exception it raises, or "" when the value is stored.         *)

\* isinstance(value, Real): Python and numpy floats and ints.
IsReal(x) == x.py \in {"float", "int"}

\* check_type(name, value, Real) then check_greater_than(name, value, 0.0,
\* equality): "" or the exception raised.
check_greater_than(value, minimum, equality) ==
    IF equality
    THEN IF value < minimum THEN "ValueError" ELSE ""
    ELSE IF value <= minimum THEN "ValueError" ELSE ""

check_real(x, equality) ==
    IF ~IsReal(x) THEN "TypeError" ELSE check_greater_than(x.v, 0, equality)

set_spacing(x) == IF IsNone(x) THEN "" ELSE check_real(x, FALSE)
set_sqrtAWR(x) == IF IsNone(x) THEN "" ELSE check_real(x, FALSE)
set_start_E(x) == IF IsNone(x) THEN "" ELSE check_real(x, TRUE)
set_end_E(x) == IF IsNone(x) THEN "" ELSE check_real(x, FALSE)

set_data(x) ==
    IF IsNone(x) THEN ""
    ELSE IF x.py # "ndarray" THEN "TypeError"
    ELSE IF Len(x.shape) # 2 THEN "ValueError"
    ELSE IF x.shape[2] \notin {3, 4} THEN "ValueError"
    ELSE IF x.dtype # "complex128" THEN "TypeError"
    ELSE ""

set_int1d(x) ==
    IF IsNone(x) THEN ""
    ELSE IF x.py # "ndarray" THEN "TypeError"
    ELSE IF Len(x.shape) # 1 THEN "ValueError"
    ELSE IF x.dtype # "int64" THEN "TypeError"
    ELSE ""
set_w_start(x) == set_int1d(x)
set_w_end(x) == set_int1d(x)

set_broaden_poly(x) ==
    IF IsNone(x) THEN ""
    ELSE IF x.py # "ndarray" THEN "TypeError"
    ELSE IF Len(x.shape) # 1 THEN "ValueError"
    ELSE IF x.dtype # "bool" THEN "TypeError"
    ELSE ""

set_curvefit(x) ==
    IF IsNone(x) THEN ""
    ELSE IF x.py # "ndarray" THEN "TypeError"
    ELSE IF Len(x.shape) # 3 THEN "ValueError"
    ELSE IF x.shape[3] \notin {2, 3} THEN "ValueError"
    ELSE IF x.dtype # "float64" THEN "TypeError"
    ELSE ""

Fields == {"spacing", "sqrtAWR", "start_E", "end_E", "data", "w_start",
           "w_end", "broaden_poly", "curvefit"}

\* The setter of attribute f applied to x.
Setter(f, x) ==
    CASE f = "spacing" -> set_spacing(x)
      [] f = "sqrtAWR" -> set_sqrtAWR(x)
      [] f = "start_E" -> set_start_E(x)
      [] f = "end_E" -> set_end_E(x)
      [] f = "data" -> set_data(x)
      [] f = "w_start" -> set_w_start(x)
      [] f = "w_end" -> set_w_end(x)
      [] f = "broaden_poly" -> set_broaden_poly(x)
      [] f = "curvefit" -> set_curvefit(x)

\* WindowedMultipole(): __init__ assigns None to every attribute.
NewWmp == [f \in Fields |-> None]

\* The derived properties fit_order and fissionable.
fit_order(self) == self.curvefit.shape[2] - 1
fissionable(self) == self.data.shape[2] = 4

----------------------------------------------------------------------------
(* HDF5 files.  A file is [version, nuclide]: the 'version' dataset and    *)
(* the 'nuclide' group, a record of the nine datasets; a dataset is the    *)
(* Python value its .value yields.  A fixed-length string dataset holds    *)
(* its bytes padded with NULs, which reading strips.                       *)

BytesLen == 10

RECURSIVE StripNul(_)
StripNul(b) ==
    IF b # <<>> /\ b[Len(b)] = 0 THEN StripNul(SubSeq(b, 1, Len(b) - 1)) ELSE b

\* A variant of PadS10 that stores the bytes in an 'S3' dataset.
PadS10_Truncating(b) == [i \in 1..3 |-> IF i <= Len(b) THEN b[i] ELSE 0]

\* Storing bytes in an 'S10' dataset: truncated or NUL-padded to 10 bytes.
PadS10(b) == [i \in 1..BytesLen |-> IF i <= Len(b) THEN b[i] ELSE 0]

\* The 'version' dataset as export_to_hdf5 writes it: shape (1,), dtype S10.
VersionArray(b) == NdArray("S10", <<1>>, <<PadS10(b)>>)
\* A scalar fixed-length string dataset, and a variable-length str dataset.
VersionScalar(b) == PyObj("bytes", 0, "S10", <<>>, <<PadS10(b)>>)
VersionStr(b) == PyObj("str", 0, "", <<>>, <<PadS10(b)>>)

\* h5file['version'].value.decode(), falling back on .value[0].decode() when
\* the value has no decode: the exception raised ("" for none) and the text.
ReadVersion(ds) ==
    CASE ds.py = "bytes" -> [exc |-> "", text |-> StripNul(ds.flat[1])]
      [] ds.py = "ndarray" -> [exc |-> "", text |-> StripNul(ds.flat[1])]
      [] OTHER -> [exc |-> "AttributeError", text |-> <<>>]

\* A dataset that the file does not hold: reading it raises KeyError.
Absent == PyObj("absent", 0, "", <<>>, <<>>)

\* group[name].value followed by the setter: the exception raised, if any.
ReadInto(f, x) == IF x.py = "absent" THEN "KeyError" ELSE Setter(f, x)

\* The exception of the earlier of two statements that raises.
OrElse(exc, later) == IF exc # "" THEN exc ELSE later

\* A variant of VersionCheck that reads the version and compares nothing.
VersionCheck_NoComparison(version) == version.exc

\* Lines 434-446: the version check, made only when a file name is given.
VersionCheck(version) ==
    OrElse(version.exc, IF version.text # WMP_VERSION THEN "ValueError" ELSE "")

VersionExc(is_group, f) ==
    IF is_group THEN "" ELSE VersionCheck(ReadVersion(f.version))

\* Lines 452-461: the scalars and the data array, through their setters.
ScalarsExc(out) ==
    OrElse(ReadInto("spacing", out.spacing),
    OrElse(ReadInto("sqrtAWR", out.sqrtAWR),
    OrElse(ReadInto("start_E", out.start_E),
    OrElse(ReadInto("end_E", out.end_E),
           ReadInto("data", out.data)))))

\* A variant of LengthExc that accepts every length.
LengthExc_Unchecked(out, arr) == ""

\* A ValueError unless the array has the length of w_start.
LengthExc(out, arr) ==
    IF arr.shape[1] # out.w_start.shape[1] THEN "ValueError" ELSE ""

\* Lines 463-475: the window arrays, through their setters, each compared
\* in length with w_start.  stored is the broaden_poly dataset before astype.
WindowsExc(out, stored) ==
    OrElse(ReadInto("w_start", out.w_start),
    OrElse(ReadInto("w_end", out.w_end),
    OrElse(LengthExc(out, out.w_end),
    OrElse(IF stored.py = "absent" THEN "KeyError" ELSE "",
    OrElse(ReadInto("broaden_poly", out.broaden_poly),
    OrElse(LengthExc(out, out.broaden_poly),
    OrElse(ReadInto("curvefit", out.curvefit),
           LengthExc(out, out.curvefit))))))))

\* A variant of FitOrderExc that accepts a fit of order 1.
FitOrderExc_OffByOne(out) == IF fit_order(out) < 1 THEN "ValueError" ELSE ""

\* Lines 477-480: _broaden_wmp_polynomials needs a fit of 3 terms or more.
FitOrderExc(out) == IF fit_order(out) < 2 THEN "ValueError" ELSE ""

\* Lines 448-473: the object from_hdf5 fills from the group.
ReadGroup(group) ==
    [spacing |-> group.spacing,
     sqrtAWR |-> group.sqrtAWR,
     start_E |-> group.start_E,
     end_E |-> group.end_E,
     data |-> group.data,
     w_start |-> group.w_start,
     w_end |-> group.w_end,
     broaden_poly |-> AsBool(group.broaden_poly),
     curvefit |-> group.curvefit]

\* from_hdf5(group_or_filename).  f is the file; is_group says that the
\* caller passed f's 'nuclide' group instead of f's name.  Yields the
\* exception raised ("" for none) and the object returned.
from_hdf5(is_group, f) ==
    [exc |-> OrElse(VersionExc(is_group, f),
             OrElse(ScalarsExc(ReadGroup(f.nuclide)),
             OrElse(WindowsExc(ReadGroup(f.nuclide), f.nuclide.broaden_poly),
                    FitOrderExc(ReadGroup(f.nuclide))))),
     out |-> ReadGroup(f.nuclide)]

\* export_to_hdf5(path): the exception raised ("" for none) and the file
\* left at path.  The datasets are written in order; np.array(None) and
\* data=None have no HDF5 type (TypeError) and None has no astype
\* (AttributeError), and the datasets after the failing one are not written.
ExportOrder == <<"spacing", "sqrtAWR", "start_E", "end_E", "data", "w_start",
                 "w_end", "broaden_poly", "curvefit">>

export_to_hdf5(self) ==
    LET bad == {i \in 1..Len(ExportOrder) : IsNone(self[ExportOrder[i]])}
        stop == IF bad = {} THEN Len(ExportOrder) + 1
                ELSE CHOOSE i \in bad : \A j \in bad : i <= j
        written(i, x) == IF i < stop THEN x ELSE Absent
        exc == IF bad = {} THEN ""
               ELSE IF ExportOrder[stop] = "broaden_poly" THEN "AttributeError"
               ELSE "TypeError"
    IN  [exc |-> exc,
         file |->
           [version |-> VersionArray(WMP_VERSION),
            nuclide |-> [spacing |-> written(1, self.spacing),
                         sqrtAWR |-> written(2, self.sqrtAWR),
                         start_E |-> written(3, self.start_E),
                         end_E |-> written(4, self.end_E),
                         data |-> written(5, self.data),
                         w_start |-> written(6, self.w_start),
                         w_end |-> written(7, self.w_end),
                         broaden_poly |->
                             IF 8 < stop THEN AsInt8(self.broaden_poly) ELSE Absent,
                         curvefit |-> written(9, self.curvefit)]]]

----------------------------------------------------------------------------
(* _faddeeva and _broaden_wmp_polynomials.                                 *)

\* A complex value whose parts are linear forms.
LCx(re, im) == [re |-> re, im |-> im]

\* scipy.special.wofz(z): uninterpreted.
wofz(z) == LCx(LFAtom(Atom("wofz.re", z, 0)), LFAtom(Atom("wofz.im", z, 0)))

\* A variant of AnglePositive that looks at the imaginary part alone.
AnglePositive_ImOnly(z) == RLess(RZero, z.im)

\* np.angle(z) > 0.  angle is atan2(imag, real); the imaginary part of the
\* argument the code passes is never the negative zero, so on the real axis
\* the angle is pi for a negative and 0 for a non-negative real part.
AnglePositive(z) ==
    \/ RLess(RZero, z.im)
    \/ z.im = RZero /\ RLess(z.re, RZero)

_faddeeva(z) ==
    IF AnglePositive(z)
    THEN wofz(z)
    ELSE LET w == wofz(CConj(z)) IN LCx(LFNeg(w.re), w.im)

\* The loop of lines 213-218 from index i on; factors is the sequence
\* factors[0..n-1] (factors[i] of the code is factors[i + 1] here).
RECURSIVE BroadenLoop(_, _, _, _, _, _)
BroadenLoop(factors, i, n, E, half_inv_dopp2, quarter_inv_dopp4) ==
    IF i >= n - 2 THEN factors
    ELSE LET step == LFScale(RAdd(RInt(E), RMul(RInt(1 + 2 * i), half_inv_dopp2)),
                             factors[i + 1])
             next ==
                 IF i # 1
                 THEN LFAdd(LFScale(RMul(RInt(-((i - 1) * i)), quarter_inv_dopp4),
                                    factors[i - 1]),
                            step)
                 ELSE step
         IN  BroadenLoop([factors EXCEPT ![i + 3] = next], i + 1, n, E,
                         half_inv_dopp2, quarter_inv_dopp4)

\* _broaden_wmp_polynomials(E, dopp, n) for n >= 3 (factors[2] of a shorter
\* array raises IndexError): the n broadened factors.
_broaden_wmp_polynomials(E, dopp, n) ==
    LET sqrtE == RInt(Sqrt(E))
        beta == RMul(sqrtE, dopp)
        half_inv_dopp2 == RDiv(<<1, 2>>, RMul(dopp, dopp))
        quarter_inv_dopp4 == RMul(half_inv_dopp2, half_inv_dopp2)
        saturated == RLess(RInt(6), beta)
        erf_beta == IF saturated THEN LFRat(ROne)
                    ELSE LFAtom(Atom("erf", Cx(beta, RZero), 0))
        exp_m_beta2 == IF saturated THEN LFZero
                       ELSE LFAtom(Atom("exp_m_sq", Cx(beta, RZero), 0))
        f0 == LFScale(RDiv(ROne, RInt(E)), erf_beta)
        f1 == LFRat(RDiv(ROne, sqrtE))
        f2 == LFAdd(LFScale(RAdd(half_inv_dopp2, RInt(E)), f0),
                    LFSqrtPi(LFScale(RDiv(ROne, beta), exp_m_beta2), -1))
        zeros == [i \in 1..n |-> LFZero]
    IN  BroadenLoop([zeros EXCEPT ![1] = f0, ![2] = f1, ![3] = f2], 1, n, E,
                    half_inv_dopp2, quarter_inv_dopp4)

----------------------------------------------------------------------------
(* _evaluate.  E is the energy and T the temperature in units of           *)
(* 1 / K_BOLTZMANN kelvin, so that K_BOLTZMANN * T = T.  The outcome is    *)
(* the exception raised ("" for none), whether the tuple returned holds    *)
(* Python ints (the literal (0, 0, 0)) and the three cross sections.       *)

Sig(t, a, f) == [sig_t |-> t, sig_a |-> a, sig_f |-> f]
SigZero == Sig(LFZero, LFZero, LFZero)

Raise(e) == [exc |-> e, ints |-> FALSE, val |-> SigZero]
Return(ints, sig) == [exc |-> "", ints |-> ints, val |-> sig]

SigAdd(x, y) ==
    Sig(LFAdd(x.sig_t, y.sig_t), LFAdd(x.sig_a, y.sig_a), LFAdd(x.sig_f, y.sig_f))

\* arr[i] with a Python index: -len <= i < len, a negative i counts from the end.
IndexOk(len, i) == -len <= i /\ i < len
PyIndex(len, i) == IF i < 0 THEN i + len ELSE i

\* i_window = int(np.floor((sqrtE - sqrt(self.start_E)) / self.spacing))
i_window(self, E) ==
    RFloor(RDiv(RInt(Sqrt(E) - Sqrt(self.start_E.v)), RInt(self.spacing.v)))

\* The exception the first pass of a curvefit loop raises, if any: the
\* reads of curvefit[i_window, i_poly, _FIT_T / _FIT_A], self.fissionable
\* and curvefit[i_window, i_poly, _FIT_F].
CurvefitLoopExc(self, iw) ==
    IF fit_order(self) + 1 <= 0 THEN ""
    ELSE IF iw >= self.curvefit.shape[1] THEN "IndexError"
    ELSE IF IsNone(self.data) THEN "AttributeError"
    ELSE IF fissionable(self) /\ _FIT_F >= self.curvefit.shape[3] THEN "IndexError"
    ELSE ""

\* A variant of CurvefitTerm that adds the fission coefficient whenever the
\* curvefit array has one.
CurvefitTerm_FissionAlways(self, iw, i_poly, basis) ==
    Sig(LFScale(RInt(At3(self.curvefit, iw, i_poly, _FIT_T)), basis),
        LFScale(RInt(At3(self.curvefit, iw, i_poly, _FIT_A)), basis),
        IF _FIT_F < self.curvefit.shape[3]
        THEN LFScale(RInt(At3(self.curvefit, iw, i_poly, _FIT_F)), basis)
        ELSE LFZero)

\* One pass of either curvefit loop: the term of index i_poly times basis.
CurvefitTerm(self, iw, i_poly, basis) ==
    Sig(LFScale(RInt(At3(self.curvefit, iw, i_poly, _FIT_T)), basis),
        LFScale(RInt(At3(self.curvefit, iw, i_poly, _FIT_A)), basis),
        IF fissionable(self)
        THEN LFScale(RInt(At3(self.curvefit, iw, i_poly, _FIT_F)), basis)
        ELSE LFZero)

\* Lines 534-541: the broadened curvefit from term i_poly on.
RECURSIVE BroadenedLoop(_, _, _, _, _)
BroadenedLoop(self, iw, broadened_polynomials, i_poly, sig) ==
    IF i_poly >= fit_order(self) + 1 THEN sig
    ELSE BroadenedLoop(self, iw, broadened_polynomials, i_poly + 1,
             SigAdd(sig, CurvefitTerm(self, iw, i_poly,
                                      broadened_polynomials[i_poly + 1])))

\* Lines 543-549: the unbroadened curvefit from term i_poly on.
RECURSIVE PlainLoop(_, _, _, _, _, _)
PlainLoop(self, iw, sqrtE, temp, i_poly, sig) ==
    IF i_poly >= fit_order(self) + 1 THEN sig
    ELSE PlainLoop(self, iw, sqrtE, RMul(temp, sqrtE), i_poly + 1,
             SigAdd(sig, CurvefitTerm(self, iw, i_poly, LFRat(temp))))

\* Lines 529-549: the contribution of the curvefit polynomial.
Curvefit(self, E, T, iw) ==
    LET sqrtkT == Sqrt(T)
        sqrtE == RInt(Sqrt(E))
        invE == RDiv(ROne, RInt(E))
        dopp == RDiv(RInt(self.sqrtAWR.v), RInt(sqrtkT))
        n == fit_order(self) + 1
    IN  IF sqrtkT # 0 /\ IsNone(self.broaden_poly) THEN Raise("TypeError")
        ELSE IF sqrtkT # 0 /\ iw >= self.broaden_poly.shape[1]
             THEN Raise("IndexError")
        ELSE IF sqrtkT # 0 /\ At1(self.broaden_poly, iw) # 0
        THEN IF IsNone(self.sqrtAWR) THEN Raise("TypeError")
             ELSE IF IsNone(self.curvefit) THEN Raise("AttributeError")
             ELSE IF n < 3 THEN Raise("IndexError")
             ELSE IF CurvefitLoopExc(self, iw) # ""
                  THEN Raise(CurvefitLoopExc(self, iw))
             ELSE Return(FALSE,
                      BroadenedLoop(self, iw, _broaden_wmp_polynomials(E, dopp, n),
                                    0, SigZero))
        ELSE IF IsNone(self.curvefit) THEN Raise("AttributeError")
             ELSE IF CurvefitLoopExc(self, iw) # ""
                  THEN Raise(CurvefitLoopExc(self, iw))
             ELSE Return(FALSE, PlainLoop(self, iw, sqrtE, invE, 0, SigZero))

\* The exception a pole loop over range(startw, endw) raises, if any: the
\* reads of self.data[i_pole, ...] and of self.fissionable.
PoleLoopExc(self, startw, endw) ==
    IF startw >= endw THEN ""
    ELSE IF IsNone(self.data) THEN "TypeError"
    ELSE IF \E i \in startw..(endw - 1) : ~IndexOk(self.data.shape[1], i)
         THEN "IndexError"
    ELSE ""

\* self.data[i_pole, j]
Pole(self, i_pole, j) == At2(self.data, PyIndex(self.data.shape[1], i_pole), j)

\* (residue * c).real for a residue and a complex c with linear-form parts.
RealOfProduct(residue, c) ==
    LFAdd(LFScale(residue.re, c.re), LFScale(RNeg(residue.im), c.im))

\* One pass of either pole loop, c being c_temp or w_val.
PoleTerm(self, i_pole, c) ==
    Sig(RealOfProduct(Pole(self, i_pole, _MP_RT), c),
        RealOfProduct(Pole(self, i_pole, _MP_RA), c),
        IF fissionable(self)
        THEN RealOfProduct(Pole(self, i_pole, _MP_RF), c)
        ELSE LFZero)

\* Lines 556-562: the 0 K pole sum from pole i_pole on.
RECURSIVE ZeroKLoop(_, _, _, _, _)
ZeroKLoop(self, E, i_pole, endw, sig) ==
    IF i_pole >= endw THEN sig
    ELSE LET sqrtE == CInt(Sqrt(E), 0)
             psi_chi == CDiv(CInt(0, -1), CSub(Pole(self, i_pole, _MP_EA), sqrtE))
             c_temp == CScale(RDiv(ROne, RInt(E)), psi_chi)
         IN  ZeroKLoop(self, E, i_pole + 1, endw,
                 SigAdd(sig, PoleTerm(self, i_pole,
                                      LCx(LFRat(c_temp.re), LFRat(c_temp.im)))))

\* Lines 567-573: the pole sum at temperature from pole i_pole on.
RECURSIVE FaddeevaLoop(_, _, _, _, _, _)
FaddeevaLoop(self, E, dopp, i_pole, endw, sig) ==
    IF i_pole >= endw THEN sig
    ELSE LET sqrtE == CInt(Sqrt(E), 0)
             invE == RDiv(ROne, RInt(E))
             Z == CScale(dopp, CSub(sqrtE, Pole(self, i_pole, _MP_EA)))
             w == _faddeeva(Z)
             k == RMul(dopp, invE)
             w_val == LCx(LFSqrtPi(LFScale(k, w.re), 1), LFSqrtPi(LFScale(k, w.im), 1))
         IN  FaddeevaLoop(self, E, dopp, i_pole + 1, endw,
                 SigAdd(sig, PoleTerm(self, i_pole, w_val)))

\* Lines 554-573: the contribution of the poles of the window.
Poles(self, E, T, startw, endw) ==
    LET sqrtkT == Sqrt(T)
        dopp == RDiv(RInt(self.sqrtAWR.v), RInt(sqrtkT))
    IN  IF sqrtkT = 0
        THEN IF PoleLoopExc(self, startw, endw) # ""
             THEN Raise(PoleLoopExc(self, startw, endw))
             ELSE Return(FALSE, ZeroKLoop(self, E, startw, endw, SigZero))
        ELSE IF IsNone(self.sqrtAWR) THEN Raise("TypeError")
             ELSE IF PoleLoopExc(self, startw, endw) # ""
             THEN Raise(PoleLoopExc(self, startw, endw))
             ELSE Return(FALSE, FaddeevaLoop(self, E, dopp, startw, endw, SigZero))

\* Lines 509-575: _evaluate for an energy that passed the range checks.
EvaluateInRange(self, E, T) ==
    IF T < 0 THEN Raise("ValueError")
    ELSE IF E = 0 THEN Raise("ZeroDivisionError")
    ELSE IF IsNone(self.spacing) THEN Raise("TypeError")
    ELSE LET iw == i_window(self, E)
         IN  IF IsNone(self.w_start) THEN Raise("TypeError")
             ELSE IF iw >= self.w_start.shape[1] THEN Raise("IndexError")
             ELSE IF IsNone(self.w_end) THEN Raise("TypeError")
             ELSE IF iw >= self.w_end.shape[1] THEN Raise("IndexError")
             ELSE LET startw == At1(self.w_start, iw) - 1
                      endw == At1(self.w_end, iw)
                      poly == Curvefit(self, E, T, iw)
                      poles == Poles(self, E, T, startw, endw)
                  IN  IF poly.exc # "" THEN poly
                      ELSE IF poles.exc # "" THEN poles
                      ELSE Return(FALSE, SigAdd(poly.val, poles.val))

\* A variant of _evaluate without the test E > self.end_E.
_evaluate_NoUpperBound(self, E, T) ==
    IF IsNone(self.start_E) THEN Raise("TypeError")
    ELSE IF E < self.start_E.v THEN Return(TRUE, SigZero)
    ELSE EvaluateInRange(self, E, T)

_evaluate(self, E, T) ==
    IF IsNone(self.start_E) THEN Raise("TypeError")
    ELSE IF E < self.start_E.v THEN Return(TRUE, SigZero)
    ELSE IF IsNone(self.end_E) THEN Raise("TypeError")
    ELSE IF E > self.end_E.v THEN Return(TRUE, SigZero)
    ELSE EvaluateInRange(self, E, T)

----------------------------------------------------------------------------
(* __call__: np.vectorize(lambda x: self._evaluate(x, T)) applied to the   *)
(* array E.  Without otypes, vectorize calls the function on the first     *)
(* element to find the dtype of each output, evaluates every element, and  *)
(* casts each output array to the dtype found.                             *)

\* Casting one output to the dtype the first element gave.  The int64 of a
\* value with a transcendental part is the uninterpreted atom "int64" of it.
AsType(ints, x) ==
    IF ~ints THEN x
    ELSE IF LFExact(x) THEN LFRat(RInt(RTrunc(LFValue(x))))
    ELSE LFAtom([fn |-> "int64", z |-> CZero, sp |-> 0, of |-> x])

\* The three output arrays, each cast to the dtype of its first element.
Cast(ints, sig) ==
    Sig(AsType(ints, sig.sig_t), AsType(ints, sig.sig_a), AsType(ints, sig.sig_f))

\* np.vectorize over the outcomes of the calls, in the order of the array:
\* no dtype can be found for an empty array, the first exception raised
\* ends the call, and every element is cast to the dtype of the first.
Vectorize(outputs) ==
    IF Len(outputs) = 0 THEN [exc |-> "ValueError", ints |-> FALSE, val |-> <<>>]
    ELSE IF \E k \in DOMAIN outputs : outputs[k].exc # ""
    THEN [exc |-> outputs[CHOOSE k \in DOMAIN outputs :
                              /\ outputs[k].exc # ""
                              /\ \A j \in 1..(k - 1) : outputs[j].exc = ""].exc,
          ints |-> FALSE, val |-> <<>>]
    ELSE [exc |-> "",
          ints |-> outputs[1].ints,
          val |-> [k \in DOMAIN outputs |-> Cast(outputs[1].ints, outputs[k].val)]]

__call__(self, E, T) ==
    Vectorize([k \in 1..Len(E) |-> _evaluate(self, E[k], T)])

----------------------------------------------------------------------------
(* The inputs of the model.                                                *)

\* Pole rows: the pole and its total, absorption and fission residues.
PoleRows == << <<CInt(3, -1), CInt(1, 0), CInt(0, 1), CInt(1, 1)>>,
               <<CInt(3, 0), CInt(2, 0), CInt(1, 0), CInt(1, 0)>> >>

\* A data array of the first npoles rows, cut to cols columns.
Data(dtype, npoles, cols) ==
    NdArray(dtype, <<npoles, cols>>,
            [k \in 1..(npoles * cols) |->
                PoleRows[((k - 1) \div cols) + 1][((k - 1) % cols) + 1]])

\* A curvefit array of shape (nw, nt, nc); the coefficient of window w,
\* term i and channel ch is 1 + i + 2 * ch + w.
CurveFit(dtype, nw, nt, nc) ==
    NdArray(dtype, <<nw, nt, nc>>,
            [k \in 1..(nw * nt * nc) |->
                1 + (((k - 1) \div nc) % nt) + 2 * ((k - 1) % nc)
                  + ((k - 1) \div (nc * nt))])

Array1(dtype, elems) == NdArray(dtype, <<Len(elems)>>, elems)

Group(spacing, sqrtAWR, start_E, end_E, data, w_start, w_end, broaden, curvefit) ==
    [spacing |-> spacing, sqrtAWR |-> sqrtAWR, start_E |-> start_E,
     end_E |-> end_E, data |-> data, w_start |-> w_start, w_end |-> w_end,
     broaden_poly |-> broaden, curvefit |-> curvefit]

\* Three well-formed files: one broadened window with a pole; two windows
\* of a fissionable nuclide with a 5-term fit; one window of spacing 1 with
\* no pole and an unbroadened 3-term fit.
BaseFiles ==
    << [version |-> VersionArray(WMP_VERSION),
        nuclide |-> Group(Float(10), Float(1), Float(1), Float(100),
                          Data("complex128", 1, 3),
                          Array1("int64", <<1>>), Array1("int64", <<1>>),
                          Array1("int8", <<1>>),
                          CurveFit("float64", 1, 3, 2))],
       [version |-> VersionArray(WMP_VERSION),
        nuclide |-> Group(Float(9), Float(1), Float(1), Float(100),
                          Data("complex128", 2, 4),
                          Array1("int64", <<1, 2>>), Array1("int64", <<1, 2>>),
                          Array1("int8", <<0, 1>>),
                          CurveFit("float64", 2, 5, 3))],
       [version |-> VersionArray(WMP_VERSION),
        nuclide |-> Group(Float(1), Float(1), Float(1), Float(100),
                          Data("complex128", 0, 3),
                          Array1("int64", <<1>>), Array1("int64", <<0>>),
                          Array1("int8", <<0>>),
                          CurveFit("float64", 1, 3, 2))] >>

\* One dataset of a file replaced: <<name, value>>.
Changes ==
    << <<"version", VersionArray(<<118, 48, 46, 57>>)>>,
       <<"version", VersionScalar(WMP_VERSION)>>,
       <<"version", VersionStr(WMP_VERSION)>>,
       <<"spacing", Float(0)>>,
       <<"spacing", Float(1)>>,
       <<"spacing", Float(9)>>,
       <<"spacing", Str(0)>>,
       <<"sqrtAWR", Float(0)>>,
       <<"start_E", Float(-1)>>,
       <<"start_E", Float(0)>>,
       <<"end_E", Float(0)>>,
       <<"end_E", Float(25)>>,
       <<"data", Data("complex128", 0, 3)>>,
       <<"data", Data("complex128", 1, 4)>>,
       <<"data", Data("complex128", 2, 3)>>,
       <<"data", Data("complex128", 1, 2)>>,
       <<"data", Data("float64", 1, 3)>>,
       <<"data", Array1("complex128", <<CInt(3, -1)>>)>>,
       <<"w_start", Array1("int64", <<0>>)>>,
       <<"w_start", Array1("int64", <<1, 1>>)>>,
       <<"w_start", Array1("float64", <<1>>)>>,
       <<"w_end", Array1("int64", <<0>>)>>,
       <<"w_end", Array1("int64", <<2>>)>>,
       <<"w_end", Array1("int64", <<2, 2>>)>>,
       <<"w_end", Array1("int64", <<1, 3>>)>>,
       <<"w_end", Array1("int64", <<0, 1>>)>>,
       <<"w_end", NdArray("int64", <<1, 1>>, <<1>>)>>,
       <<"broaden_poly", Array1("int8", <<0>>)>>,
       <<"broaden_poly", Array1("int8", <<1, 1>>)>>,
       <<"broaden_poly", NdArray("int8", <<1, 1>>, <<1>>)>>,
       <<"curvefit", CurveFit("float64", 1, 3, 3)>>,
       <<"curvefit", CurveFit("float64", 2, 3, 2)>>,
       <<"curvefit", CurveFit("float64", 1, 4, 2)>>,
       <<"curvefit", CurveFit("float64", 1, 2, 2)>>,
       <<"curvefit", CurveFit("float64", 1, 1, 2)>>,
       <<"curvefit", CurveFit("float64", 2, 1, 3)>>,
       <<"curvefit", CurveFit("float64", 1, 3, 1)>>,
       <<"curvefit", CurveFit("int64", 1, 3, 2)>>,
       <<"curvefit", NdArray("float64", <<1, 3>>, <<1, 2, 3>>)>> >>

Change(f, c) ==
    IF c[1] = "version" THEN [f EXCEPT !.version = c[2]]
    ELSE [f EXCEPT !.nuclide[c[1]] = c[2]]

\* The files from_hdf5 is given: a well-formed file, or one with one
\* dataset replaced.
Files ==
    {BaseFiles[b] : b \in 1..Len(BaseFiles)}
    \cup {Change(BaseFiles[b], Changes[c]) :
             b \in 1..Len(BaseFiles), c \in 1..Len(Changes)}

\* The values the attributes are assigned: <<name, value>>.
Assignments ==
    << <<"spacing", None>>,
       <<"spacing", Float(1)>>,
       <<"spacing", Float(0)>>,
       <<"sqrtAWR", None>>,
       <<"sqrtAWR", Float(0)>>,
       <<"start_E", Float(0)>>,
       <<"start_E", Float(-1)>>,
       <<"end_E", Float(25)>>,
       <<"end_E", Float(0)>>,
       <<"data", Data("complex128", 1, 4)>>,
       <<"data", Data("complex128", 1, 2)>>,
       <<"w_start", Array1("int64", <<0>>)>>,
       <<"w_start", Array1("float64", <<1>>)>>,
       <<"w_end", Array1("int64", <<1, 2>>)>>,
       <<"w_end", None>>,
       <<"broaden_poly", Array1("bool", <<1>>)>>,
       <<"broaden_poly", Array1("int8", <<1>>)>>,
       <<"curvefit", CurveFit("float64", 1, 1, 2)>>,
       <<"curvefit", None>>,
       <<"curvefit", CurveFit("float64", 1, 3, 1)>> >>

\* Energies in eV (perfect squares), temperatures in units of
\* 1 / K_BOLTZMANN kelvin, and the energy arrays given to __call__.
Energies == {0, 1, 25, 100, 121}
Temperatures == {-1, 0, 1}
MaxEnergies == 2
EnergyArrays == UNION {[1..n -> Energies] : n \in 0..MaxEnergies}

\* The arguments given to _faddeeva: the complex numbers with integer parts
\* of magnitude MaxPart at most (a zero part being the positive zero).
MaxPart == 5
ComplexArgs == {CInt(x, y) : x \in -MaxPart..MaxPart, y \in -MaxPart..MaxPart}

\* The number of attribute assignments a behaviour makes.
MaxAssign == 1

----------------------------------------------------------------------------
(* The state machine.  wmp holds the caller's WindowedMultipole object     *)
(* (<<>> before there is one), disk the file export_to_hdf5 wrote, ret     *)
(* the outcome of the call that has returned (<<>> when the caller is      *)
(* between calls) and assigned the number of attribute assignments made.   *)

Outcome(op, exc, field, arg, E, T, ints, val) ==
    [op |-> op, exc |-> exc, field |-> field, arg |-> arg, E |-> E, T |-> T,
     ints |-> ints, val |-> val]

Idle == ret = <<>>

Init == wmp = <<>> /\ disk = <<>> /\ ret = <<>> /\ assigned = 0

\* WindowedMultipole()
New ==
    /\ Idle /\ wmp = <<>>
    /\ wmp' = <<NewWmp>>
    /\ ret' = <<Outcome("__init__", "", "", <<>>, <<>>, 0, FALSE, <<>>)>>
    /\ UNCHANGED <<disk, assigned>>

\* WindowedMultipole.from_hdf5(filename) and from_hdf5(h5file['nuclide'])
\* on a file f: the caller keeps the object returned.
Load(is_group, f) ==
    LET r == from_hdf5(is_group, f)
    IN  /\ wmp' = IF r.exc = "" THEN <<r.out>> ELSE wmp
        /\ ret' = <<Outcome("from_hdf5", r.exc,
                            IF is_group THEN "group" ELSE "filename",
                            <<f>>, <<>>, 0, FALSE, <<>>)>>
        /\ UNCHANGED <<disk, assigned>>

FromFile == Idle /\ wmp = <<>> /\ \E f \in Files : Load(FALSE, f)
FromGroup == Idle /\ wmp = <<>> /\ \E f \in Files : Load(TRUE, f)

\* from_hdf5 on the file export_to_hdf5 left at path.
FromExported == Idle /\ disk # <<>> /\ Load(FALSE, disk[1])

\* wmp.<name> = value
SetAttr ==
    /\ Idle /\ wmp # <<>> /\ assigned < MaxAssign
    /\ \E a \in 1..Len(Assignments) :
         LET name == Assignments[a][1]
             value == Assignments[a][2]
             exc == Setter(name, value)
         IN  /\ wmp' = IF exc = "" THEN <<[wmp[1] EXCEPT ![name] = value]>> ELSE wmp
             /\ ret' = <<Outcome("setattr", exc, name, <<value>>, <<>>, 0, FALSE,
                                 <<>>)>>
    /\ assigned' = assigned + 1
    /\ UNCHANGED disk

\* wmp._evaluate(E, T)
Evaluate ==
    /\ Idle /\ wmp # <<>>
    /\ \E E \in Energies, T \in Temperatures :
         LET r == _evaluate(wmp[1], E, T)
         IN  ret' = <<Outcome("_evaluate", r.exc, "", <<>>, <<E>>, T, r.ints,
                              <<r.val>>)>>
    /\ UNCHANGED <<wmp, disk, assigned>>

\* wmp(E, T)
Call ==
    /\ Idle /\ wmp # <<>>
    /\ \E E \in EnergyArrays, T \in Temperatures :
         LET r == __call__(wmp[1], E, T)
         IN  ret' = <<Outcome("__call__", r.exc, "", <<>>, E, T, r.ints, r.val)>>
    /\ UNCHANGED <<wmp, disk, assigned>>

\* wmp.export_to_hdf5(path)
Export ==
    /\ Idle /\ wmp # <<>>
    /\ LET r == export_to_hdf5(wmp[1])
       IN  /\ disk' = <<r.file>>
           /\ ret' = <<Outcome("export_to_hdf5", r.exc, "", <<>>, <<>>, 0, FALSE,
                               <<>>)>>
    /\ UNCHANGED <<wmp, assigned>>

\* The caller takes the outcome and goes on.
Continue == ~Idle /\ ret' = <<>> /\ UNCHANGED <<wmp, disk, assigned>>

Next ==
    \/ New
    \/ FromFile
    \/ FromGroup
    \/ FromExported
    \/ SetAttr
    \/ Evaluate
    \/ Export
    \/ Continue

Spec == Init /\ [][Next]_vars

\* _faddeeva(z)
Faddeeva ==
    /\ Idle
    /\ \E z \in ComplexArgs :
         ret' = <<Outcome("_faddeeva", "", "", <<z>>, <<>>, 0, FALSE, <<_faddeeva(z)>>)>>
    /\ UNCHANGED <<wmp, disk, assigned>>

\* The module function _faddeeva on its own.
NextFaddeeva ==
    \/ Faddeeva
    \/ Continue

SpecFaddeeva == Init /\ [][NextFaddeeva]_vars

\* The vectorised evaluation of the objects from_hdf5 returns.
NextCall ==
    \/ FromFile
    \/ Call
    \/ Continue

SpecCall == Init /\ [][NextCall]_vars
----------------------------------------------------------------------------
(* The properties.  Returned(op) says that a call of op has just           *)
(* returned, Loaded that from_hdf5 has just returned an object, which is   *)
(* then the one wmp holds.                                                 *)

Returned(op) == ret # <<>> /\ ret[1].op = op
Loaded == Returned("from_hdf5") /\ ret[1].exc = ""

\* Every attribute of the object is set.
Complete(self) == \A f \in Fields : ~IsNone(self[f])

\* E lies within [start_E, end_E].
InRange(self, E) == self.start_E.v <= E /\ E <= self.end_E.v

\* The windows of the object, each spacing wide in sqrt(E) and laid out
\* from sqrt(start_E) on, reach sqrt(end_E).
WindowsCover(self) ==
    Sqrt(self.end_E.v) - Sqrt(self.start_E.v) <= self.w_start.shape[1] * self.spacing.v

\* C1: for every object from_hdf5 returns whose windows reach end_E and
\* every energy E with start_E <= E <= end_E, the window index _evaluate
\* computes lies within [0, number of windows - 1], so that a window is
\* always found.
C1_WindowIndexInRange ==
    (Loaded /\ WindowsCover(wmp[1])) =>
        \A E \in Energies :
            InRange(wmp[1], E) =>
                /\ 0 <= i_window(wmp[1], E)
                /\ i_window(wmp[1], E) <= wmp[1].w_start.shape[1] - 1

\* C2: on an object whose start_E and end_E are set, _evaluate at an energy
\* below start_E or above end_E returns the literal (0, 0, 0) and raises
\* nothing, whatever the temperature and the window and pole data are.
C2_OutOfRangeIsZero ==
    (/\ Returned("_evaluate")
     /\ ~IsNone(wmp[1].start_E) /\ ~IsNone(wmp[1].end_E)
     /\ ~InRange(wmp[1], ret[1].E[1]))
    => /\ ret[1].exc = ""
       /\ ret[1].ints
       /\ ret[1].val[1] = SigZero

\* C2 happens: an energy above end_E, at a negative temperature and on an
\* object whose w_end is None, has been evaluated.
C2_Witness ==
    /\ Returned("_evaluate")
    /\ ~IsNone(wmp[1].start_E) /\ ~IsNone(wmp[1].end_E)
    /\ ret[1].E[1] > wmp[1].end_E.v
    /\ ret[1].T < 0
    /\ IsNone(wmp[1].w_end)

\* C3: whenever _evaluate returns on an object whose data has 3 columns
\* (not fissionable), the fission cross section it returns is exactly 0,
\* whatever the curvefit coefficients, the residues and the broaden flags.
C3_NonFissionableHasNoFission ==
    (/\ Returned("_evaluate")
     /\ ret[1].exc = ""
     /\ ~IsNone(wmp[1].data)
     /\ ~fissionable(wmp[1]))
    => ret[1].val[1].sig_f = LFZero

\* C3 happens: an in-range energy has been evaluated at temperature on a
\* non-fissionable object with a pole in the window, a broadened window
\* and three curvefit channels, and the total cross section is not 0.
C3_Witness ==
    /\ Returned("_evaluate")
    /\ ret[1].exc = ""
    /\ ~ret[1].ints
    /\ ret[1].T > 0
    /\ ~IsNone(wmp[1].data)
    /\ ~fissionable(wmp[1])
    /\ wmp[1].data.shape[1] > 0
    /\ wmp[1].curvefit.shape[3] = 3
    /\ At1(wmp[1].broaden_poly, 0) = 1
    /\ ret[1].val[1].sig_t # LFZero

\* The three cross sections of an outcome of _evaluate are rationals.
Exact(sig) == LFExact(sig.sig_t) /\ LFExact(sig.sig_a) /\ LFExact(sig.sig_f)

\* C4: when __call__ returns, element k of its three arrays is the
\* outcome of _evaluate on element k of the energies, whether or not the
\* first energy lies in [start_E, end_E].  (Compared where the outcome of
\* _evaluate is a rational, so that its int64 is known.)
C4_ElementwiseMap ==
    (Returned("__call__") /\ ret[1].exc = "") =>
        /\ Len(ret[1].val) = Len(ret[1].E)
        /\ \A k \in 1..Len(ret[1].E) :
               Exact(_evaluate(wmp[1], ret[1].E[k], ret[1].T).val) =>
                   ret[1].val[k] = _evaluate(wmp[1], ret[1].E[k], ret[1].T).val

\* The file given to from_hdf5 holds a 3-D curvefit of fewer than 3 terms.
FitOrderBelow2(f) ==
    /\ f.nuclide.curvefit.py = "ndarray"
    /\ Len(f.nuclide.curvefit.shape) = 3
    /\ f.nuclide.curvefit.shape[2] - 1 < 2

C6_PoleRangesInBounds ==
    Loaded =>
        \A i \in 0..(wmp[1].w_start.shape[1] - 1) :
            \A i_pole \in (At1(wmp[1].w_start, i) - 1)..(At1(wmp[1].w_end, i) - 1) :
                0 <= i_pole /\ i_pole < wmp[1].data.shape[1]

\* The 'version' dataset of file f reads as WMP_VERSION.
VersionMatches(f) ==
    ReadVersion(f.version).exc = "" /\ ReadVersion(f.version).text = WMP_VERSION

\* C7 as stated: from_hdf5, given a file name or a group, returns an
\* object only from a file whose version is WMP_VERSION.
C7_VersionCheckedOnEveryPath ==
    Loaded => VersionMatches(ret[1].arg[1])

\* C7, amended: from_hdf5 given a file name returns an object only from a
\* file whose version is WMP_VERSION.
C7_VersionCheckedOnFilename ==
    (Loaded /\ ret[1].field = "filename") => VersionMatches(ret[1].arg[1])

\* C7 happens: from_hdf5 given the name of a file of another version and
\* well-formed otherwise has raised ValueError.
C7_Witness ==
    /\ Returned("from_hdf5")
    /\ ret[1].field = "filename"
    /\ ret[1].exc = "ValueError"
    /\ ~VersionMatches(ret[1].arg[1])
    /\ from_hdf5(TRUE, ret[1].arg[1]).exc = ""

\* The consistency from_hdf5 establishes: every attribute set, a fit order
\* of 2 or more, and w_start, w_end, broaden_poly and curvefit of one
\* length.
Consistent(self) ==
    /\ Complete(self)
    /\ fit_order(self) >= 2
    /\ self.w_end.shape[1] = self.w_start.shape[1]
    /\ self.broaden_poly.shape[1] = self.w_start.shape[1]
    /\ self.curvefit.shape[1] = self.w_start.shape[1]

C9_ChannelsMatchPoleData ==
    Loaded => wmp[1].curvefit.shape[3] = (IF fissionable(wmp[1]) THEN 3 ELSE 2)

\* The object passes every check from_hdf5 makes.
Valid(self) ==
    /\ Consistent(self)
    /\ \A f \in Fields : Setter(f, self[f]) = ""

\* C10: when export_to_hdf5 has written a valid object, from_hdf5 on the
\* name of the file written raises nothing and returns an object with the
\* same attributes, whose _evaluate has the same outcome at every energy
\* and temperature.
C10_RoundTrip ==
    (Returned("export_to_hdf5") /\ Valid(wmp[1])) =>
        /\ ret[1].exc = ""
        /\ from_hdf5(FALSE, disk[1]).exc = ""
        /\ from_hdf5(FALSE, disk[1]).out = wmp[1]
        /\ \A E \in Energies, T \in Temperatures :
               _evaluate(from_hdf5(FALSE, disk[1]).out, E, T) = _evaluate(wmp[1], E, T)

\* C10 happens: a valid fissionable object of two windows, one of them
\* broadened, has been exported after an assignment.
C10_Witness ==
    /\ Returned("export_to_hdf5")
    /\ Valid(wmp[1])
    /\ assigned > 0
    /\ fissionable(wmp[1])
    /\ wmp[1].broaden_poly.flat = <<0, 1>>

\* q to the integer power k (q # 0 when k < 0).
RECURSIVE RPow(_, _)
RPow(q, k) ==
    IF k = 0 THEN ROne
    ELSE IF k < 0 THEN RDiv(ROne, RPow(q, -k))
    ELSE RMul(q, RPow(q, k - 1))

\* The sum over i = from..fit_order of curvefit[iw, i, channel] * sqrt(E)^(i - 2).
RECURSIVE Baseline(_, _, _, _, _)
Baseline(self, iw, E, channel, from) ==
    IF from > fit_order(self) THEN RZero
    ELSE RAdd(RMul(RInt(At3(self.curvefit, iw, from, channel)),
                   RPow(RInt(Sqrt(E)), from - 2)),
              Baseline(self, iw, E, channel, from + 1))

\* The baseline of every channel the object has; no fission without it.
BaselineOnly(self, iw, E) ==
    Sig(LFRat(Baseline(self, iw, E, _FIT_T, 0)),
        LFRat(Baseline(self, iw, E, _FIT_A, 0)),
        IF fissionable(self) THEN LFRat(Baseline(self, iw, E, _FIT_F, 0)) ELSE LFZero)

\* _evaluate has been called, with no assignment made before, on a valid
\* object whose channels match its data, at a temperature T >= 0 and an
\* energy E > 0 within [start_E, end_E].
EvaluatedInRange ==
    /\ Returned("_evaluate")
    /\ assigned = 0
    /\ Valid(wmp[1])
    /\ wmp[1].curvefit.shape[3] = (IF fissionable(wmp[1]) THEN 3 ELSE 2)
    /\ ret[1].T >= 0
    /\ ret[1].E[1] > 0
    /\ InRange(wmp[1], ret[1].E[1])

\* The window of the energy evaluated is one of the object's windows, has
\* no pole, and T = 0 or the window is not broadened.
BaselineCase ==
    /\ EvaluatedInRange
    /\ i_window(wmp[1], ret[1].E[1]) < wmp[1].w_start.shape[1]
    /\ At1(wmp[1].w_start, i_window(wmp[1], ret[1].E[1])) - 1
           >= At1(wmp[1].w_end, i_window(wmp[1], ret[1].E[1]))
    /\ (ret[1].T = 0 \/ At1(wmp[1].broaden_poly, i_window(wmp[1], ret[1].E[1])) = 0)

\* The object of the scenario: start_E = 1, end_E = 100, spacing = 1, one
\* window with an unbroadened 3-term fit and no poles.
ScenarioTable(self) ==
    /\ self.start_E.v = 1 /\ self.end_E.v = 100 /\ self.spacing.v = 1
    /\ self.w_start.shape[1] = 1
    /\ self.curvefit.shape[2] = 3
    /\ self.broaden_poly.flat = <<0>>
    /\ self.data.shape[1] = 0

\* C11, where the window is found: in the baseline case _evaluate raises
\* nothing and returns, for each channel, the sum over i = 0..fit_order of
\* curvefit[i_window, i, channel] * sqrt(E)^(i - 2).
C11_BaselineWhereWindowFound ==
    BaselineCase =>
        /\ ret[1].exc = ""
        /\ ret[1].val[1] = BaselineOnly(wmp[1], i_window(wmp[1], ret[1].E[1]), ret[1].E[1])

\* C11: the same, and on the object of the scenario _evaluate(25, 0)
\* raises nothing and returns the total a/25 + b/5 + c, [a, b, c] being
\* the fit for the total cross section of its one window.
C11_BaselineOnly ==
    /\ C11_BaselineWhereWindowFound
    /\ (/\ EvaluatedInRange
        /\ ScenarioTable(wmp[1])
        /\ ret[1].E[1] = 25
        /\ ret[1].T = 0)
       => /\ ret[1].exc = ""
          /\ ret[1].val[1].sig_t =
                 LFRat(RAdd(RAdd(RDiv(RInt(At3(wmp[1].curvefit, 0, 0, _FIT_T)), RInt(25)),
                                 RDiv(RInt(At3(wmp[1].curvefit, 0, 1, _FIT_T)), RInt(5))),
                            RInt(At3(wmp[1].curvefit, 0, 2, _FIT_T))))

\* The baseline case happens: energy 25 has been evaluated at T > 0 in the
\* first window of a fissionable object with a 5-term fit, the window
\* being unbroadened and without a pole.
C11_Witness ==
    /\ BaselineCase
    /\ ret[1].T > 0
    /\ ret[1].E[1] = 25
    /\ fissionable(wmp[1])
    /\ fit_order(wmp[1]) = 4
    /\ ret[1].val[1].sig_f # LFZero

\* The direct form wofz(z) and the reflected form -conj(wofz(conj(z))).
Direct(z) == LCx(LFAtom(Atom("wofz.re", z, 0)), LFAtom(Atom("wofz.im", z, 0)))
Reflected(z) ==
    LCx(LFNeg(LFAtom(Atom("wofz.re", CConj(z), 0))), LFAtom(Atom("wofz.im", CConj(z), 0)))

\* C12 as stated: _faddeeva(z) is the direct form exactly when Im(z) > 0
\* and the reflected form exactly when Im(z) <= 0, the real axis and 0
\* included.
C12_DispatchOnImaginaryPart ==
    Returned("_faddeeva") =>
        ret[1].val[1] = (IF RLess(RZero, ret[1].arg[1].im)
                         THEN Direct(ret[1].arg[1])
                         ELSE Reflected(ret[1].arg[1]))

\* C12, amended: _faddeeva(z) is the direct form when Im(z) > 0 and on the
\* negative real axis, and the reflected form when Im(z) < 0, on the
\* positive real axis and at 0; so it differs from the dispatch on
\* Im(z) > 0 on the negative real axis and nowhere else.
C12_DispatchOnAngle ==
    Returned("_faddeeva") =>
        LET z == ret[1].arg[1]
            w == ret[1].val[1]
            negative_axis == z.im = RZero /\ RLess(z.re, RZero)
        IN  /\ RLess(RZero, z.im) => w = Direct(z)
            /\ RLess(z.im, RZero) => w = Reflected(z)
            /\ negative_axis => w = Direct(z)
            /\ (z.im = RZero /\ ~RLess(z.re, RZero)) => w = Reflected(z)
            /\ negative_axis <=>
                   w # (IF RLess(RZero, z.im) THEN Direct(z) ELSE Reflected(z))

\* C12 happens: _faddeeva has returned the direct form for an argument on
\* the negative real axis.
C12_Witness ==
    /\ Returned("_faddeeva")
    /\ ret[1].arg[1].im = RZero
    /\ RLess(ret[1].arg[1].re, RZero)
    /\ ret[1].val[1] = Direct(ret[1].arg[1])

====
